---- MODULE Spec2Model ----
(***************************************************************************)
(* Authoritative DNS server of src/server.py: the Zone record store built  *)
(* from the configuration (Zone.__init__, Zone.build_records,              *)
(* Zone.add_record, Zone._add) and the query resolution algorithm          *)
(* (Resolver.resolve, Zone.get_records, Zone.name_exists).                 *)
(*                                                                         *)
(* Texts of the configuration (domain names, address literals) are kept as *)
(* the sequence of their dot-separated pieces: "www.example.com." is       *)
(* <<"www", "example", "com", "">>.                                        *)
(***************************************************************************)
EXTENDS Integers, Sequences, FiniteSets, TLC

VARIABLES
    config,     \* the loaded configuration document (main, line 112)
    pc,         \* position of main / Zone construction
    idx,        \* position of the running for loop of build_records
    origin,     \* Zone.origin
    ttl,        \* Zone.ttl
    records,    \* Zone.records: (name, type code) -> list of RR
    listening,  \* the UDP and TCP listeners have been started
    request,    \* the question of the last resolve call
    reply,      \* the reply of the last resolve call
    hpc,        \* per handler thread: position inside resolve
    hreq,       \* per handler thread: the question being resolved
    hrep        \* per handler thread: the reply under construction

vars == <<config, pc, idx, origin, ttl, records, listening, request, reply, hpc, hreq, hrep>>

(***************************************************************************)
(* Bounds of the model.                                                    *)
(***************************************************************************)
MaxRecords == 2

(***************************************************************************)
(* Python and dnslib helpers.                                              *)
(***************************************************************************)
Empty == <<>>

\* dict.get(key, default)
Get(d, k, default) == IF k \in DOMAIN d THEN d[k] ELSE default

\* d.get(key, shape) in the place of d[key]: no KeyError
Subscript_get(d, k, shape) == [ok |-> TRUE, v |-> IF k \in DOMAIN d THEN d[k] ELSE shape]

\* d[key]: raises KeyError when the key is missing (shape stands in for the
\* value that is then never used)
Subscript(d, k, shape) == [ok |-> k \in DOMAIN d, v |-> IF k \in DOMAIN d THEN d[k] ELSE shape]

\* bytes.lower() on one label, as DNSLabel.__eq__ / __hash__ apply it
Lower(l) ==
    CASE l = "WWW" -> "www"
      [] l = "Example" -> "example"
      [] l = "NS1" -> "ns1"
      [] OTHER -> l

\* length in octets of one label
Octets(l) == IF l = "label-of-64-octets" THEN 64 ELSE 8

\* A YAML scalar of the configuration: an integer or a string
YInt(n) == [kind |-> "int", n |-> n, s |-> ""]
YStr(s) == [kind |-> "str", n |-> 0, s |-> s]

\* the decimal texts, which int() parses; on any other text int() raises ValueError
IsDecimal(s) == s \in {"1", "01", "2", "3", "4", "5", "6", "7", "8", "60", "600", "999", "3600", "86400", "2024010101"}

IntOf(s) ==
    CASE s = "1" -> 1 [] s = "01" -> 1 [] s = "2" -> 2 [] s = "3" -> 3 [] s = "4" -> 4
      [] s = "5" -> 5 [] s = "6" -> 6 [] s = "7" -> 7 [] s = "8" -> 8
      [] s = "60" -> 60 [] s = "600" -> 600 [] s = "999" -> 999 [] s = "3600" -> 3600
      [] s = "86400" -> 86400 [] s = "2024010101" -> 2024010101
      [] OTHER -> 0

\* int(x) of a scalar
int(x) ==
    IF x.kind = "int" THEN [ok |-> TRUE, n |-> x.n]
    ELSE IF IsDecimal(x.s) THEN [ok |-> TRUE, n |-> IntOf(x.s)]
    ELSE [ok |-> FALSE, n |-> 0]

\* int(time.strftime("%Y%m%d%H")) at build time
BuildHour == 2026110411

\* str.rstrip("."): every trailing empty piece is dropped
RECURSIVE RStripDots(_)
RStripDots(t) ==
    IF Len(t) > 0 /\ t[Len(t)] = "" THEN RStripDots(SubSeq(t, 1, Len(t) - 1)) ELSE t

\* DNSLabel(text): the idna codec rejects an empty or over-long label before
\* the last one; one trailing dot is dropped; labels compare and hash
\* lower-cased, so a label is represented by its lower-cased tuple.
DNSLabel(t) ==
    IF t = <<"">> \/ t = <<"", "">> \/ t = <<>>
    THEN [ok |-> TRUE, label |-> <<>>]
    ELSE IF \/ \E i \in 1..(Len(t) - 1) : t[i] = "" \/ Octets(t[i]) > 63
            \/ Octets(t[Len(t)]) > 63
         THEN [ok |-> FALSE, label |-> <<>>]
         ELSE LET s == RStripDots(t)
              IN  [ok |-> TRUE, label |-> [i \in 1..Len(s) |-> Lower(s[i])]]

\* rdata values: names (DNSLabel), numbers and text, one shape for every type
RD(names, nums, text) == [names |-> names, nums |-> nums, text |-> text]
NoRD == RD(<<>>, <<>>, "")

\* A(str(value)): tuple(map(int, value.rstrip(".").split("."))), four octets 0..255
A(v) ==
    LET s == RStripDots(v)
    IN  IF /\ Len(s) = 4
           /\ \A i \in 1..Len(s) : IsDecimal(s[i]) /\ IntOf(s[i]) <= 255
        THEN [ok |-> TRUE, rd |-> RD(<<>>, [i \in 1..Len(s) |-> IntOf(s[i])], "")]
        ELSE [ok |-> FALSE, rd |-> NoRD]

\* AAAA(str(value)): the literal is parsed to its 16 octets
AAAA(v) ==
    IF v = <<"::1">>
    THEN [ok |-> TRUE, rd |-> RD(<<>>, <<0, 0, 0, 0, 0, 0, 0, 0, 0, 0, 0, 0, 0, 0, 0, 1>>, "")]
    ELSE IF v = <<"2001:db8::5">>
    THEN [ok |-> TRUE, rd |-> RD(<<>>, <<32, 1, 13, 184, 0, 0, 0, 0, 0, 0, 0, 0, 0, 0, 0, 5>>, "")]
    ELSE [ok |-> FALSE, rd |-> NoRD]

\* CNAME(DNSLabel(str(value))) and NS(DNSLabel(str(value)))
CNAME(v) ==
    LET l == DNSLabel(v)
    IN  IF l.ok THEN [ok |-> TRUE, rd |-> RD(<<l.label>>, <<>>, "")] ELSE [ok |-> FALSE, rd |-> NoRD]

NS(v) ==
    LET l == DNSLabel(v)
    IN  IF l.ok THEN [ok |-> TRUE, rd |-> RD(<<l.label>>, <<>>, "")] ELSE [ok |-> FALSE, rd |-> NoRD]

\* TXT(str(value)): a string of more than 255 octets raises
TXT(v) ==
    IF Len(v) = 1 /\ v[1] # "text-of-300-octets"
    THEN [ok |-> TRUE, rd |-> RD(<<>>, <<>>, v[1])]
    ELSE [ok |-> FALSE, rd |-> NoRD]

\* QTYPE: the type codes of dnslib, by name
QTYPE ==
    [n \in {"A", "NS", "CNAME", "SOA", "MX", "TXT", "AAAA", "ANY"} |->
        CASE n = "A" -> 1 [] n = "NS" -> 2 [] n = "CNAME" -> 5 [] n = "SOA" -> 6
          [] n = "MX" -> 15 [] n = "TXT" -> 16 [] n = "AAAA" -> 28 [] n = "ANY" -> 255]

\* getattr(QTYPE, rtype, None): QTYPE is a Bimap whose failed attribute
\* lookup raises DNSError, which is no AttributeError, so the default None
\* is never returned and the exception leaves add_record.
QTYPE_getattr(rtype) ==
    IF rtype \in DOMAIN QTYPE
    THEN [raised |-> FALSE, t |-> QTYPE[rtype]]
    ELSE [raised |-> TRUE, t |-> 0]

\* str(rtype).upper().strip()
UpperStrip(s) ==
    CASE s = "a" -> "A"
      [] s = " ns " -> "NS"
      [] s = "soa" -> "SOA"
      [] s = "foo" -> "FOO"
      [] OTHER -> s

\* RR(rname, rtype, rdata=rdata, ttl=ttl)
RR(rname, rtype, rdata, rttl) == [rname |-> rname, rtype |-> rtype, rdata |-> rdata, ttl |-> rttl]

(***************************************************************************)
(* Zone: the record store.                                                 *)
(***************************************************************************)
\* dict.setdefault(key, [])
SetDefault(recs, key) == IF key \in DOMAIN recs THEN recs ELSE recs @@ (key :> <<>>)

\* _add with an assignment in the place of setdefault(...).append
_add_overwrite(recs, name, tcode, rdata, rttl) ==
    LET rname == DNSLabel(name)
    IN  IF ~rname.ok THEN [ok |-> FALSE, recs |-> recs]
        ELSE LET key == <<rname.label, tcode>>
                 recs1 == SetDefault(recs, key)
                 t == int(rttl)
             IN  IF ~t.ok THEN [ok |-> FALSE, recs |-> recs1]
                 ELSE [ok |-> TRUE,
                       recs |-> [recs1 EXCEPT ![key] = <<RR(rname.label, tcode, rdata, t.n)>>]]

\* Zone._add: the name is converted, the key is created by setdefault, and
\* only then is the argument of append (with int(ttl)) evaluated.
_add(recs, name, tcode, rdata, rttl) ==
    LET rname == DNSLabel(name)
    IN  IF ~rname.ok THEN [ok |-> FALSE, recs |-> recs]
        ELSE LET key == <<rname.label, tcode>>
                 recs1 == SetDefault(recs, key)
                 t == int(rttl)
             IN  IF ~t.ok THEN [ok |-> FALSE, recs |-> recs1]
                 ELSE [ok |-> TRUE,
                       recs |-> [recs1 EXCEPT ![key] = Append(@, RR(rname.label, tcode, rdata, t.n))]]

\* one branch of add_record: the rdata constructor runs before _add is called
AddTyped(recs, name, tcode, rd, rttl) ==
    IF ~rd.ok THEN recs ELSE _add(recs, name, tcode, rd.rd, rttl).recs

\* add_record whose SOA branch stores the entry like the other types
add_record_soa(recs, name, rtype0, value, rttl) ==
    LET rtype == UpperStrip(rtype0)
        t == QTYPE_getattr(rtype)
    IN  IF t.raised THEN [raised |-> TRUE, recs |-> recs]
        ELSE [raised |-> FALSE,
              recs |->
                CASE rtype = "A" -> AddTyped(recs, name, QTYPE["A"], A(value), rttl)
                  [] rtype = "AAAA" -> AddTyped(recs, name, QTYPE["AAAA"], AAAA(value), rttl)
                  [] rtype = "CNAME" -> AddTyped(recs, name, QTYPE["CNAME"], CNAME(value), rttl)
                  [] rtype = "TXT" -> AddTyped(recs, name, QTYPE["TXT"], TXT(value), rttl)
                  [] rtype = "NS" -> AddTyped(recs, name, QTYPE["NS"], NS(value), rttl)
                  [] rtype = "SOA" -> AddTyped(recs, name, QTYPE["SOA"], TXT(value), rttl)
                  [] OTHER -> recs]

\* Zone.add_record: raised is the DNSError of the type lookup, which is
\* outside the try block; every exception inside it is caught.
add_record(recs, name, rtype0, value, rttl) ==
    LET rtype == UpperStrip(rtype0)
        t == QTYPE_getattr(rtype)
    IN  IF t.raised THEN [raised |-> TRUE, recs |-> recs]
        ELSE [raised |-> FALSE,
              recs |->
                CASE rtype = "A" -> AddTyped(recs, name, QTYPE["A"], A(value), rttl)
                  [] rtype = "AAAA" -> AddTyped(recs, name, QTYPE["AAAA"], AAAA(value), rttl)
                  [] rtype = "CNAME" -> AddTyped(recs, name, QTYPE["CNAME"], CNAME(value), rttl)
                  [] rtype = "TXT" -> AddTyped(recs, name, QTYPE["TXT"], TXT(value), rttl)
                  [] rtype = "NS" -> AddTyped(recs, name, QTYPE["NS"], NS(value), rttl)
                  [] rtype = "SOA" -> recs
                  [] OTHER -> recs]

\* get_records with setdefault in the place of get: a miss creates the key
get_records_setdefault(recs, name, qtype) ==
    [rrs |-> IF <<name, qtype>> \in DOMAIN recs THEN recs[<<name, qtype>>] ELSE <<>>,
     recs |-> SetDefault(recs, <<name, qtype>>)]

\* Zone.get_records: dict.get(key, []) reads the store and leaves it as it is
get_records(recs, name, qtype) ==
    [rrs |-> IF <<name, qtype>> \in DOMAIN recs THEN recs[<<name, qtype>>] ELSE <<>>,
     recs |-> recs]

\* name_exists comparing the whole key with the name
name_exists_wholekey(recs, name) == \E key \in DOMAIN recs : key = <<name>>

\* Zone.name_exists: a scan of the keys
name_exists(recs, name) == \E key \in DOMAIN recs : key[1] = name

(***************************************************************************)
(* Resolver.resolve, statement by statement.  A reply under construction   *)
(* is [rcode, rr, auth]; DNSHeader starts with rcode NOERROR.              *)
(***************************************************************************)
NewReply == [rcode |-> "NOERROR", rr |-> <<>>, auth |-> <<>>]

\* lines 19-22: the lookup of the question and the answer section
Answer(recs, q, rep) ==
    LET a == get_records(recs, q.qname, q.qtype)
    IN  [hit |-> a.rrs # <<>>, rep |-> [rep EXCEPT !.rr = @ \o a.rrs], recs |-> a.recs]

\* lines 23-24 and 32-33: the apex NS RRset goes into the authority section
AuthorityNS(recs, org, rep) ==
    LET ns == get_records(recs, org, QTYPE["NS"])
    IN  [rep |-> [rep EXCEPT !.auth = @ \o ns.rrs], recs |-> ns.recs]

\* lines 26-27: the response code of a reply without a direct hit
NegativeCode(recs, q, rep) ==
    [rep EXCEPT !.rcode = IF name_exists(recs, q.qname) THEN "NOERROR" ELSE "NXDOMAIN"]

\* the SOA lookup asking for the NS type
AuthoritySOA_ns(recs, org, rep) ==
    LET soa == get_records(recs, org, QTYPE["NS"])
    IN  [found |-> soa.rrs # <<>>, rep |-> [rep EXCEPT !.auth = @ \o soa.rrs], recs |-> soa.recs]

\* lines 28-30: the SOA RRset goes into the authority section when there is one
AuthoritySOA(recs, org, rep) ==
    LET soa == get_records(recs, org, QTYPE["SOA"])
    IN  [found |-> soa.rrs # <<>>, rep |-> [rep EXCEPT !.auth = @ \o soa.rrs], recs |-> soa.recs]

\* resolve without the authority section on a direct hit
resolve_noauth(recs, org, q) ==
    LET a == Answer(recs, q, NewReply)
    IN  IF a.hit
        THEN [rep |-> a.rep, recs |-> a.recs]
        ELSE LET c == NegativeCode(a.recs, q, a.rep)
                 s == AuthoritySOA(a.recs, org, c)
             IN  IF s.found
                 THEN [rep |-> s.rep, recs |-> s.recs]
                 ELSE LET n == AuthorityNS(s.recs, org, s.rep)
                      IN  [rep |-> n.rep, recs |-> n.recs]

\* Resolver.resolve as one call
resolve(recs, org, q) ==
    LET a == Answer(recs, q, NewReply)
    IN  IF a.hit
        THEN LET n == AuthorityNS(a.recs, org, a.rep)
             IN  [rep |-> n.rep, recs |-> n.recs]
        ELSE LET c == NegativeCode(a.recs, q, a.rep)
                 s == AuthoritySOA(a.recs, org, c)
             IN  IF s.found
                 THEN [rep |-> s.rep, recs |-> s.recs]
                 ELSE LET n == AuthorityNS(s.recs, org, s.rep)
                      IN  [rep |-> n.rep, recs |-> n.recs]

(***************************************************************************)
(* The configurations the model loads.                                     *)
(***************************************************************************)
SeqsUpTo(S, n) == UNION {[1..k -> S] : k \in 0..n}

OriginText == <<"Example", "com", "">>
Apex == <<"example", "com">>
Www == <<"www", "example", "com">>
Mail == <<"mail", "example", "com">>
Alias == <<"alias", "example", "com">>
Nope == <<"nope", "example", "com">>

SoaFields == {"mname", "rname", "serial", "refresh", "retry", "expire", "minimum"}

SoaFull(serial) ==
    [f \in SoaFields |->
        CASE f = "mname" -> <<"NS1", "example", "com", "">>
          [] f = "rname" -> <<"admin", "example", "com">>
          [] f = "serial" -> serial
          [] f = "refresh" -> YInt(3600)
          [] f = "retry" -> YInt(600)
          [] f = "expire" -> YInt(86400)
          [] f = "minimum" -> YInt(60)]

Restrict(f, S) == [k \in S |-> f[k]]

SoaBlocks ==
    {SoaFull(YStr("auto")), SoaFull(YInt(2024010101)), Empty}
        \cup {Restrict(SoaFull(YStr("auto")), SoaFields \ {f}) : f \in SoaFields}

NsLists == {<<<<"NS1", "example", "com", "">>, <<"ns2", "example", "com">>>>}

Zones ==
    {o @@ s @@ n : o \in {Empty, "origin" :> OriginText},
                   s \in {Empty} \cup {"soa" :> b : b \in SoaBlocks},
                   n \in {Empty} \cup {"ns" :> l : l \in NsLists}}
        \cup {("origin" :> OriginText) @@ ("default_ttl" :> YStr("3600"))
                @@ ("soa" :> SoaFull(YInt(2024010101)))}

Rec(name, type, value) == [name |-> name, type |-> type, value |-> value]
RecTtl(name, type, value, rttl) == [name |-> name, type |-> type, value |-> value, ttl |-> rttl]

Entries ==
    {Rec(Www, "A", <<"1", "2", "3", "4">>),
     RecTtl(<<"WWW", "example", "com", "">>, "a", <<"5", "6", "7", "8", "">>, YInt(60)),
     Rec(Www, "A", <<"bad", "ip">>),
     RecTtl(Mail, "A", <<"1", "2", "3", "4">>, YStr("abc")),
     Rec(<<"a", "", "com">>, "A", <<"1", "2", "3", "4">>),
     Rec(Alias, "CNAME", <<"WWW", "example", "com", "">>),
     Rec(OriginText, " ns ", <<"ns3", "example", "com">>),
     Rec(OriginText, "soa", <<"other">>),
     Rec(Www, "SOA", <<"other">>),
     Rec(Mail, "MX", <<"10 mx", "example", "com">>),
     Rec(Www, "foo", <<"x">>),
     RecTtl(Www, "TXT", <<"hello">>, YStr("60")),
     Rec(Www, "AAAA", <<"::1">>)}

Configs ==
    {z @@ r @@ ("server" :> [udp_port |-> 5300]) :
        z \in {Empty} \cup {"zone" :> zz : zz \in Zones},
        r \in {Empty} \cup {"records" :> l : l \in SeqsUpTo(Entries, MaxRecords) \ {<<>>}}}

QNames == {Apex, Www, Mail, Alias, Nope}
QTypes == {QTYPE["A"], QTYPE["NS"], QTYPE["CNAME"], QTYPE["SOA"], QTYPE["TXT"], QTYPE["AAAA"], QTYPE["ANY"]}
Questions == [qname : QNames, qtype : QTypes]

Handlers == {"udp", "tcp"}

NoRequest == [qname |-> <<>>, qtype |-> 0]
NoReply == [rcode |-> "none", rr |-> <<>>, auth |-> <<>>]

(***************************************************************************)
(* Start-up: main, Zone.__init__ and Zone.build_records.                   *)
(***************************************************************************)
Init ==
    /\ config \in Configs
    /\ pc = "start"
    /\ idx = 1
    /\ origin = <<>>
    /\ ttl = 0
    /\ records = Empty
    /\ listening = FALSE
    /\ request = NoRequest
    /\ reply = NoReply
    /\ hpc = [h \in Handlers |-> "idle"]
    /\ hreq = [h \in Handlers |-> NoRequest]
    /\ hrep = [h \in Handlers |-> NoReply]

\* z.get("ns", []) and config.get("records", [])
NsList == Get(config["zone"], "ns", <<>>)
RecordList == Get(config, "records", <<>>)

\* where build_records continues after the SOA block, and main after build_records
AfterSOA == IF NsList # <<>> THEN "ns" ELSE IF RecordList # <<>> THEN "records" ELSE "built"
AfterNS == IF RecordList # <<>> THEN "records" ELSE "built"

Crash ==
    /\ pc' = "crashed"
    /\ UNCHANGED <<config, idx, origin, ttl, records, listening, request, reply, hpc, hreq, hrep>>

\* main line 114 and Zone.__init__ lines 37-41
ZoneInit ==
    /\ pc = "start"
    /\ LET z == Subscript(config, "zone", Empty)
           o == Subscript(z.v, "origin", <<>>)
           l == DNSLabel(o.v)
           t == int(Get(z.v, "default_ttl", YInt(300)))
       IN  IF ~z.ok \/ ~o.ok \/ ~l.ok \/ ~t.ok
           THEN Crash
           ELSE /\ origin' = l.label
                /\ ttl' = t.n
                /\ records' = Empty
                /\ pc' = "soa"
                /\ UNCHANGED <<config, idx, listening, request, reply, hpc, hreq, hrep>>

\* build_records lines 74-84: the SOA record of the zone.soa block
BuildSOA ==
    /\ pc = "soa"
    /\ LET z == config["zone"]
           soa == Get(z, "soa", Empty)
       IN  IF DOMAIN soa = {}
           THEN /\ pc' = AfterSOA
                /\ UNCHANGED <<config, idx, origin, ttl, records, listening, request, reply, hpc,
                               hreq, hrep>>
           ELSE LET auto == LET sv == Get(soa, "serial", YStr("auto"))
                            IN  sv.kind = "str" /\ sv.s = "auto"
                    serial == IF auto THEN [ok |-> TRUE, n |-> BuildHour]
                              ELSE int(soa["serial"])
                    mname == Subscript(soa, "mname", <<>>)
                    rname == Subscript(soa, "rname", <<>>)
                    ml == DNSLabel(mname.v)
                    rl == DNSLabel(rname.v)
                    refresh == Subscript(soa, "refresh", YInt(0))
                    retry == Subscript(soa, "retry", YInt(0))
                    expire == Subscript(soa, "expire", YInt(0))
                    minimum == Subscript(soa, "minimum", YInt(0))
                    times == <<serial, int(refresh.v), int(retry.v), int(expire.v), int(minimum.v)>>
                    added == _add(records, z["origin"], QTYPE["SOA"],
                                  RD(<<ml.label, rl.label>>, [i \in 1..5 |-> times[i].n], ""),
                                  YInt(ttl))
               IN  IF \/ ~mname.ok \/ ~rname.ok \/ ~refresh.ok \/ ~retry.ok \/ ~expire.ok
                      \/ ~minimum.ok \/ ~ml.ok \/ ~rl.ok
                      \/ \E i \in 1..5 : ~times[i].ok
                      \/ ~added.ok
                   THEN Crash
                   ELSE /\ records' = added.recs
                        /\ pc' = AfterSOA
                        /\ UNCHANGED <<config, idx, origin, ttl, listening, request, reply, hpc,
                                       hreq, hrep>>

\* build_records lines 86-87: one pass of the loop over zone.ns
AddNS ==
    /\ pc = "ns"
    /\ LET z == config["zone"]
           rd == NS(NsList[idx])
           added == _add(records, z["origin"], QTYPE["NS"], rd.rd, YInt(ttl))
       IN  IF ~rd.ok \/ ~added.ok
           THEN Crash
           ELSE /\ records' = added.recs
                /\ idx' = IF idx < Len(NsList) THEN idx + 1 ELSE 1
                /\ pc' = IF idx < Len(NsList) THEN "ns" ELSE AfterNS
                /\ UNCHANGED <<config, origin, ttl, listening, request, reply, hpc, hreq, hrep>>

\* build_records lines 89-90: one pass of the loop over records
AddRecord ==
    /\ pc = "records"
    /\ LET rec == RecordList[idx]
           added == add_record(records, rec["name"], rec["type"], rec["value"],
                               Get(rec, "ttl", YInt(ttl)))
       IN  IF added.raised
           THEN Crash
           ELSE /\ records' = added.recs
                /\ idx' = IF idx < Len(RecordList) THEN idx + 1 ELSE 1
                /\ pc' = IF idx < Len(RecordList) THEN "records" ELSE "built"
                /\ UNCHANGED <<config, origin, ttl, listening, request, reply, hpc, hreq, hrep>>

\* main lines 115-133: the resolver and both listeners
StartServers ==
    /\ pc = "built"
    /\ IF "server" \notin DOMAIN config
       THEN Crash
       ELSE /\ listening' = TRUE
            /\ pc' = "serving"
            /\ UNCHANGED <<config, idx, origin, ttl, records, request, reply, hpc, hreq, hrep>>

(***************************************************************************)
(* Serving: one resolve call per request.                                  *)
(***************************************************************************)
\* lines 10-33: the reply to question q is built
Resolve(q) ==
    /\ pc = "serving"
    /\ listening
    /\ request = NoRequest
    /\ LET r == resolve(records, origin, q)
       IN  /\ request' = q
           /\ reply' = r.rep
           /\ records' = r.recs
    /\ UNCHANGED <<config, pc, idx, origin, ttl, listening, hpc, hreq, hrep>>

\* line 34: the reply is handed back to the server, which sends it
Return ==
    /\ pc = "serving"
    /\ request # NoRequest
    /\ request' = NoRequest
    /\ reply' = NoReply
    /\ UNCHANGED <<config, pc, idx, origin, ttl, records, listening, hpc, hreq, hrep>>

Next ==
    \/ ZoneInit
    \/ BuildSOA
    \/ AddNS
    \/ AddRecord
    \/ StartServers
    \/ \E q \in Questions : Resolve(q)
    \/ Return

Spec == Init /\ [][Next]_vars

(***************************************************************************)
(* Serving from the UDP and the TCP handler thread: the statements of      *)
(* resolve interleave, and both threads read the same store.               *)
(***************************************************************************)
ThreadEntries ==
    {Rec(Www, "A", <<"1", "2", "3", "4">>),
     RecTtl(Mail, "A", <<"1", "2", "3", "4">>, YStr("abc")),
     Rec(Alias, "CNAME", <<"WWW", "example", "com", "">>)}

ThreadConfigs ==
    {("zone" :> (("origin" :> OriginText) @@ s @@ n)) @@ ("records" :> l)
        @@ ("server" :> [udp_port |-> 5300]) :
        s \in {Empty, "soa" :> SoaFull(YStr("auto"))},
        n \in {Empty} \cup {"ns" :> x : x \in NsLists},
        l \in SeqsUpTo(ThreadEntries, MaxRecords) \ {<<>>}}

ThreadQuestions == [qname : {Www, Alias, Mail, Nope}, qtype : {QTYPE["A"], QTYPE["CNAME"]}]

InitThreads ==
    /\ config \in ThreadConfigs
    /\ pc = "start"
    /\ idx = 1
    /\ origin = <<>>
    /\ ttl = 0
    /\ records = Empty
    /\ listening = FALSE
    /\ request = NoRequest
    /\ reply = NoReply
    /\ hpc = [h \in Handlers |-> "idle"]
    /\ hreq = [h \in Handlers |-> NoRequest]
    /\ hrep = [h \in Handlers |-> NoReply]

\* lines 11-17: the handler thread enters resolve with a fresh reply
Receive(h, q) ==
    /\ pc = "serving"
    /\ listening
    /\ hpc[h] = "idle"
    /\ hpc' = [hpc EXCEPT ![h] = "lookup"]
    /\ hreq' = [hreq EXCEPT ![h] = q]
    /\ hrep' = [hrep EXCEPT ![h] = NewReply]
    /\ UNCHANGED <<config, pc, idx, origin, ttl, records, listening, request, reply>>

\* lines 19-22
Lookup(h) ==
    /\ hpc[h] = "lookup"
    /\ LET a == Answer(records, hreq[h], hrep[h])
       IN  /\ hrep' = [hrep EXCEPT ![h] = a.rep]
           /\ records' = a.recs
           /\ hpc' = [hpc EXCEPT ![h] = IF a.hit THEN "authns" ELSE "negative"]
    /\ UNCHANGED <<config, pc, idx, origin, ttl, listening, request, reply, hreq>>

\* lines 26-27
Negative(h) ==
    /\ hpc[h] = "negative"
    /\ hrep' = [hrep EXCEPT ![h] = NegativeCode(records, hreq[h], hrep[h])]
    /\ hpc' = [hpc EXCEPT ![h] = "authsoa"]
    /\ UNCHANGED <<config, pc, idx, origin, ttl, records, listening, request, reply, hreq>>

\* lines 28-31
AuthSOA(h) ==
    /\ hpc[h] = "authsoa"
    /\ LET a == AuthoritySOA(records, origin, hrep[h])
       IN  /\ hrep' = [hrep EXCEPT ![h] = a.rep]
           /\ records' = a.recs
           /\ hpc' = [hpc EXCEPT ![h] = IF a.found THEN "return" ELSE "authns"]
    /\ UNCHANGED <<config, pc, idx, origin, ttl, listening, request, reply, hreq>>

\* lines 23-24 and 32-33
AuthNS(h) ==
    /\ hpc[h] = "authns"
    /\ LET a == AuthorityNS(records, origin, hrep[h])
       IN  /\ hrep' = [hrep EXCEPT ![h] = a.rep]
           /\ records' = a.recs
           /\ hpc' = [hpc EXCEPT ![h] = "return"]
    /\ UNCHANGED <<config, pc, idx, origin, ttl, listening, request, reply, hreq>>

\* line 34
ReturnReply(h) ==
    /\ hpc[h] = "return"
    /\ hpc' = [hpc EXCEPT ![h] = "idle"]
    /\ hreq' = [hreq EXCEPT ![h] = NoRequest]
    /\ hrep' = [hrep EXCEPT ![h] = NoReply]
    /\ UNCHANGED <<config, pc, idx, origin, ttl, records, listening, request, reply>>

NextThreads ==
    \/ ZoneInit
    \/ BuildSOA
    \/ AddNS
    \/ AddRecord
    \/ StartServers
    \/ \E h \in Handlers, q \in ThreadQuestions : Receive(h, q)
    \/ \E h \in Handlers : Lookup(h)
    \/ \E h \in Handlers : Negative(h)
    \/ \E h \in Handlers : AuthSOA(h)
    \/ \E h \in Handlers : AuthNS(h)
    \/ \E h \in Handlers : ReturnReply(h)

SpecThreads == InitThreads /\ [][NextThreads]_vars

(***************************************************************************)
(* Vocabulary of the properties.                                           *)
(***************************************************************************)
HasZone == "zone" \in DOMAIN config
HasOrigin == HasZone /\ "origin" \in DOMAIN config["zone"]
SoaBlock == IF HasZone THEN Get(config["zone"], "soa", Empty) ELSE Empty
SoaConfigured == DOMAIN SoaBlock # {}
Entry(i) == RecordList[i]
EntryIds == 1..Len(RecordList)

\* Zone(config) has returned
Constructed == pc \in {"built", "serving"}
\* a resolve call has produced the reply held in reply
Asked == request # NoRequest

StoreRRset(name, t) == IF <<name, t>> \in DOMAIN records THEN records[<<name, t>>] ELSE <<>>
HoldsRecord(name) == \E key \in DOMAIN records : key[1] = name /\ records[key] # <<>>

LoadableTypes == {"A", "AAAA", "CNAME", "TXT", "NS"}
SupportedTypes == LoadableTypes \cup {"SOA"}

EntryData(e) ==
    LET t == UpperStrip(e["type"])
    IN  CASE t = "A" -> A(e["value"])
          [] t = "AAAA" -> AAAA(e["value"])
          [] t = "CNAME" -> CNAME(e["value"])
          [] t = "TXT" -> TXT(e["value"])
          [] t = "NS" -> NS(e["value"])
          [] OTHER -> [ok |-> FALSE, rd |-> NoRD]

WellFormed(e) ==
    /\ UpperStrip(e["type"]) \in LoadableTypes
    /\ DNSLabel(e["name"]).ok
    /\ EntryData(e).ok
    /\ int(Get(e, "ttl", YInt(ttl))).ok

\* the entry fails inside add_record: bad value, bad name or bad ttl
Malformed(e) == UpperStrip(e["type"]) \in LoadableTypes /\ ~WellFormed(e)

\* the last resolve call asked for the name and type of entry e
AsksFor(e) ==
    /\ Asked
    /\ DNSLabel(e["name"]).ok
    /\ UpperStrip(e["type"]) \in DOMAIN QTYPE
    /\ request.qname = DNSLabel(e["name"]).label
    /\ request.qtype = QTYPE[UpperStrip(e["type"])]

Answered(e) ==
    /\ reply.rcode = "NOERROR"
    /\ \E j \in 1..Len(reply.rr) :
          /\ reply.rr[j].rname = DNSLabel(e["name"]).label
          /\ reply.rr[j].rtype = QTYPE[UpperStrip(e["type"])]
          /\ EntryData(e).ok
          /\ reply.rr[j].rdata = EntryData(e).rd

(***************************************************************************)
(* C1                                                                      *)
(***************************************************************************)
\* C1 as stated: every entry of the records list with a supported type (A,
\* AAAA, CNAME, TXT, NS, SOA) is answered by resolve(name, type) with NOERROR
\* and a record of that owner, type and data.
C1_EverySupportedEntryAnswered ==
    \A i \in EntryIds :
        (UpperStrip(Entry(i)["type"]) \in SupportedTypes /\ AsksFor(Entry(i))) => Answered(Entry(i))

\* C1 amended: every entry of type A, AAAA, CNAME, TXT or NS whose name, value
\* and ttl are well-formed is answered by resolve(name, type) with NOERROR and
\* a record of that owner, type and data.
C1_WellFormedEntryAnswered ==
    \A i \in EntryIds :
        (WellFormed(Entry(i)) /\ AsksFor(Entry(i))) => Answered(Entry(i))

\* a well-formed entry written in another case and with a trailing dot has
\* been asked for, in a list that also holds a second record of the RRset
C1_Witness ==
    /\ Len(RecordList) = 2
    /\ WellFormed(Entry(1)) /\ WellFormed(Entry(2))
    /\ Entry(1)["name"] # Entry(2)["name"]
    /\ AsksFor(Entry(1)) /\ AsksFor(Entry(2))
    /\ Len(reply.rr) = 2

(***************************************************************************)
(* C2                                                                      *)
(***************************************************************************)
\* C2: when the store holds no record for the asked name under any type,
\* the reply is NXDOMAIN with empty answers.
C2_UnknownNameIsNxdomain ==
    (Asked /\ ~HoldsRecord(request.qname)) => (reply.rcode = "NXDOMAIN" /\ reply.rr = <<>>)

(***************************************************************************)
(* C3                                                                      *)
(***************************************************************************)
\* C3: when the asked name has a record under some type and none under the
\* asked type, the reply is NOERROR with empty answers.
C3_NoDataIsNoerror ==
    (Asked /\ HoldsRecord(request.qname) /\ StoreRRset(request.qname, request.qtype) = <<>>)
        => (reply.rcode = "NOERROR" /\ reply.rr = <<>>)

\* a name that owns only a CNAME, whose target has A records, asked for A
C3_Witness ==
    /\ Asked
    /\ request = [qname |-> Alias, qtype |-> QTYPE["A"]]
    /\ StoreRRset(Alias, QTYPE["CNAME"]) # <<>>
    /\ StoreRRset(Www, QTYPE["A"]) # <<>>
    /\ reply.rr = <<>>

(***************************************************************************)
(* C4                                                                      *)
(***************************************************************************)
\* C4: on a reply without answers the authority section is the SOA RRset when
\* an SOA is configured, else the apex NS RRset, and it is empty only when
\* the zone has neither.
C4_NegativeAuthority ==
    (Asked /\ reply.rr = <<>>) =>
        /\ SoaConfigured =>
              /\ reply.auth = StoreRRset(origin, QTYPE["SOA"])
              /\ Len(reply.auth) = 1
              /\ reply.auth[1].rtype = QTYPE["SOA"]
        /\ ~SoaConfigured => reply.auth = StoreRRset(origin, QTYPE["NS"])
        /\ reply.auth = <<>> => (~SoaConfigured /\ StoreRRset(origin, QTYPE["NS"]) = <<>>)

\* both negative replies happen: NXDOMAIN with the SOA although apex NS
\* records exist
C4_Witness ==
    /\ Asked /\ reply.rr = <<>> /\ reply.rcode = "NXDOMAIN"
    /\ SoaConfigured
    /\ StoreRRset(origin, QTYPE["NS"]) # <<>>
    /\ Len(reply.auth) = 1

(***************************************************************************)
(* C5                                                                      *)
(***************************************************************************)
\* the zone block is structurally valid: zone.origin is there, and a
\* non-empty zone.soa has every field the code subscripts
ZoneValid ==
    /\ HasOrigin
    /\ SoaConfigured => {"mname", "rname", "refresh", "retry", "expire", "minimum"} \subseteq DOMAIN SoaBlock

\* C5: with a valid zone block, no entry of the records list, whatever its
\* type string, aborts zone construction.
C5_UnknownTypeDoesNotAbort == ZoneValid => pc # "crashed"

(***************************************************************************)
(* C6                                                                      *)
(***************************************************************************)
\* C6: loading a malformed entry (bad value, name or ttl) leaves the store
\* exactly as it was: no key and no record is added for it.
C6_MalformedEntryAddsNothing ==
    [][(pc = "records" /\ Malformed(Entry(idx))) => records' = records]_vars

(***************************************************************************)
(* C7                                                                      *)
(***************************************************************************)
ServerStarted ==
    \/ listening
    \/ pc \in {"built", "serving"}
    \/ reply # NoReply
    \/ \E h \in Handlers : hrep[h] # NoReply

\* C7 as stated: a configuration without the zone block or zone.origin, or
\* with a zone.soa block that lacks any of its seven fields (mname, rname,
\* serial, refresh, retry, expire, minimum), never gets a zone, a listener or
\* an answer.
C7_IncompleteNeverStarts ==
    (~HasOrigin \/ (SoaConfigured /\ ~(SoaFields \subseteq DOMAIN SoaBlock))) => ~ServerStarted

\* C7 amended: a configuration without the zone block or zone.origin, or
\* with a non-empty zone.soa block that lacks any of mname, rname, refresh,
\* retry, expire, minimum, never gets past the SOA step of construction and
\* never gets a listener or an answer.
C7_InvalidZoneNeverStarts ==
    ~ZoneValid =>
        /\ ~ServerStarted
        /\ pc \in (IF HasOrigin THEN {"start", "soa", "crashed"} ELSE {"start", "crashed"})

\* construction has failed on an SOA block without its minimum field
C7_Witness ==
    /\ pc = "crashed"
    /\ HasOrigin
    /\ DOMAIN SoaBlock = SoaFields \ {"minimum"}

(***************************************************************************)
(* C8                                                                      *)
(***************************************************************************)
\* C8: once the zone is constructed no step changes the store.
C8_StoreImmutable == [][Constructed => records' = records]_vars

\* both handler threads are inside resolve, past their lookups, on a store
\* that holds a key without records
C8_Witness ==
    /\ hpc["udp"] = "authsoa"
    /\ hpc["tcp"] = "authns"
    /\ \E key \in DOMAIN records : records[key] = <<>>

(***************************************************************************)
(* C9                                                                      *)
(***************************************************************************)
\* C9: on a direct hit the reply is NOERROR and its authority section is the
\* apex NS RRset in stored order, without the SOA record.
C9_DirectHitAuthority ==
    (Asked /\ StoreRRset(request.qname, request.qtype) # <<>>) =>
        /\ reply.rcode = "NOERROR"
        /\ reply.auth = StoreRRset(origin, QTYPE["NS"])
        /\ \A j \in 1..Len(reply.auth) : reply.auth[j].rtype # QTYPE["SOA"]

\* the SOA itself is asked for, and the apex NS RRset has the two hosts of
\* zone.ns followed by the one of the records list
C9_Witness ==
    /\ Asked
    /\ request = [qname |-> origin, qtype |-> QTYPE["SOA"]]
    /\ Len(reply.rr) = 1
    /\ Len(reply.auth) = 3
    /\ reply.auth[3].rdata.names = <<<<"ns3", "example", "com">>>>

(***************************************************************************)
(* C10                                                                     *)
(***************************************************************************)
\* the SOA record the zone.soa block describes
SoaOfBlock ==
    LET b == SoaBlock
        sv == Get(b, "serial", YStr("auto"))
    IN  RR(DNSLabel(config["zone"]["origin"]).label, QTYPE["SOA"],
           RD(<<DNSLabel(b["mname"]).label, DNSLabel(b["rname"]).label>>,
              <<IF sv = YStr("auto") THEN BuildHour ELSE int(sv).n,
                int(b["refresh"]).n, int(b["retry"]).n, int(b["expire"]).n, int(b["minimum"]).n>>,
              ""),
           int(Get(config["zone"], "default_ttl", YInt(300))).n)

\* C10: a constructed store holds SOA records only under (origin, SOA): the
\* one record of the zone.soa block when it is configured, none otherwise.
C10_OnlyTheZoneSoa ==
    Constructed =>
        /\ \A key \in DOMAIN records :
              (key[2] = QTYPE["SOA"] \/ \E j \in 1..Len(records[key]) : records[key][j].rtype = QTYPE["SOA"])
                  => key = <<origin, QTYPE["SOA"]>>
        /\ SoaConfigured => StoreRRset(origin, QTYPE["SOA"]) = <<SoaOfBlock>>
        /\ ~SoaConfigured => <<origin, QTYPE["SOA"]>> \notin DOMAIN records

\* a list with an SOA entry for the apex and one for another name has been
\* loaded next to a configured zone.soa
C10_Witness ==
    /\ Constructed
    /\ SoaConfigured
    /\ Len(RecordList) = 2
    /\ UpperStrip(Entry(1)["type"]) = "SOA" /\ UpperStrip(Entry(2)["type"]) = "SOA"
    /\ Entry(1)["name"] # Entry(2)["name"]

====
